---- MODULE Spec2Model ----
(***************************************************************************)
(* Model of internal/app/website/delivery_http.go: the HTTP handlers of    *)
(* the website resource (Tracking, GetWebsite, GetAllWebsite, AddWebsite,  *)
(* UpdateWebsite, DeleteWebsite) running concurrently, one goroutine per   *)
(* request, against a shared session store, a shared website store and a   *)
(* wall clock.  The use cases and helper packages the handlers call        *)
(* (auth.UseCase, website.UseCase, security, str, dur) are not part of     *)
(* the delivery file; they are modelled from the specification's           *)
(* collaborator contracts.                                                 *)
(***************************************************************************)
EXTENDS Integers, Sequences, FiniteSets, TLC

VARIABLES websites, sessions, clock, pc, req, loc, resp, calls

vars == <<websites, sessions, clock, pc, req, loc, resp, calls>>

(***************************************************************************)
(* Bounds of the model.                                                    *)
(***************************************************************************)
NumRequests == 2
MaxClock == 2

Requests == 1..NumRequests

(***************************************************************************)
(* HTTP status codes written by the handlers.                              *)
(***************************************************************************)
StatusOK == 200
StatusBadRequest == 400
StatusUnauthorized == 401
StatusConflict == 409
StatusInternalServerError == 500

(***************************************************************************)
(* RequestWebsite validation tags.                                         *)
(***************************************************************************)
MinNameLen == 2
MaxNameLen == 100
MinURLLen == 3

(***************************************************************************)
(* Strings are sequences of one-character strings, so that parsing,        *)
(* case folding and hashing are computed character by character.           *)
(***************************************************************************)
RECURSIVE IndexOf(_, _, _)
IndexOf(s, chars, i) ==
    IF i > Len(s) THEN 0
    ELSE IF s[i] \in chars THEN i
    ELSE IndexOf(s, chars, i + 1)

ToLower(c) ==
    CASE c = "A" -> "a"
      [] c = "B" -> "b"
      [] c = "C" -> "c"
      [] OTHER -> c

\* str.ParseURL: the host component of the URL, case-folded, without
\* scheme, path or query; an error when there is no host to extract.
ParseURL(url) ==
    LET colon == IndexOf(url, {":"}, 1)
        hasScheme == /\ colon > 0
                     /\ colon + 2 <= Len(url)
                     /\ url[colon + 1] = "/"
                     /\ url[colon + 2] = "/"
        rest == IF hasScheme THEN SubSeq(url, colon + 3, Len(url)) ELSE <<>>
        stop == IndexOf(rest, {"/", "?"}, 1)
        host == IF stop = 0 THEN rest ELSE SubSeq(rest, 1, stop - 1)
    IN  [err |-> host = <<>>,
         hostName |-> [i \in 1..Len(host) |-> ToLower(host[i])]]

CharCode(c) ==
    CASE c = "a" -> 1
      [] c = "b" -> 2
      [] c = "c" -> 3
      [] c = "A" -> 4
      [] c = "B" -> 5
      [] c = "C" -> 6
      [] c = "." -> 7
      [] OTHER -> 8

\* security.Hash: a deterministic digest of its input, injective on the
\* strings of the model (every character code is a non-zero base-9 digit).
RECURSIVE Hash(_)
Hash(s) ==
    IF s = <<>> THEN 0
    ELSE Hash(SubSeq(s, 1, Len(s) - 1)) * 9 + CharCode(s[Len(s)])

\* time.Now().Format("2006-01-02, 15:04:05"): the clock reading printed
\* with a resolution of one second.  The clock counts half seconds.
FormatTime(t) == t \div 2

\* dur.ParseTime: the time value of a printed time, or an error.
ParseTime(text, parseFails) ==
    [err |-> parseFails, time |-> IF parseFails THEN 0 ELSE text * 2]


(***************************************************************************)
(* Inputs of the requests.                                                 *)
(***************************************************************************)
HostAB == <<"a", "b">>
HostC == <<"c">>

URLDup == <<"h", ":", "/", "/", "a", "B", "/">>

URLs ==
    { <<"s", ":", "/", "/", "A", "b", "/", "p", "?", "x">>,
      URLDup,
      <<"h", ":", "/", "/", "c">>,
      <<"h", ":", "/", "/", "/", "p">> }

NameMy == <<"m", "y">>
NameDup == <<"d", "u", "p">>
NameShort == <<"x">>

\* The request bodies: one that is not JSON, and RequestWebsite values, one
\* of them with a name and a URL below the minimum lengths.
Bodies ==
    {[json |-> FALSE, Name |-> <<>>, URL |-> <<>>]}
    \cup {[json |-> TRUE, Name |-> NameShort, URL |-> <<"h", ":">>]}
    \cup {[json |-> TRUE, Name |-> NameMy, URL |-> u] : u \in URLs \ {URLDup}}
    \cup {[json |-> TRUE, Name |-> NameDup, URL |-> URLDup]}

NoBody == [json |-> FALSE, Name |-> <<>>, URL |-> <<>>]

\* Bearer tokens: well-formed ones carry an access UUID, the malformed one
\* carries none.
NoToken == [valid |-> FALSE, AccessUUID |-> ""]

Tokens == {[valid |-> TRUE, AccessUUID |-> a] : a \in {"a1", "a2", "a3"}} \cup {NoToken}

WebsiteIDs == {Hash(HostAB)}

NoRequest == [handler |-> "", token |-> NoToken,
              body |-> NoBody, website_id |-> 0]

NoWebsite ==
    [ID |-> 0, UserID |-> "", Name |-> <<>>, HostName |-> <<>>, URL |-> <<>>,
     Tracked |-> FALSE, CreatedAt |-> 0, UpdatedAt |-> 0]

NoLocals == [hostName |-> <<>>, userID |-> "", website |-> NoWebsite]

\* A response: status 0 means that nothing was written.
Response(status, msg, data) == [status |-> status, msg |-> msg, data |-> data]

NoResponse == Response(0, "", <<>>)

Call(op, res) == [op |-> op, res |-> res]

(***************************************************************************)
(* Collaborators.                                                          *)
(***************************************************************************)
\* security.ExtractAccessTokenMetadata
ExtractAccessTokenMetadata(token) ==
    [err |-> ~token.valid, AccessUUID |-> token.AccessUUID]

\* auth.UseCase.GetAuth: the user of a live session.
GetAuth(store, accessUUID) ==
    IF accessUUID \notin DOMAIN store
    THEN [err |-> TRUE, userID |-> ""]
    ELSE [err |-> FALSE, userID |-> store[accessUUID]]

Owned(store, userID) == SelectSeq(store, LAMBDA w : w.UserID = userID)

\* website.UseCase.GetWebsite: the website of that user with that id.
GetWebsiteOf(store, userID, websiteID, down) ==
    LET found == SelectSeq(store, LAMBDA w : w.UserID = userID /\ w.ID = websiteID)
    IN  IF down \/ found = <<>>
        THEN [err |-> TRUE, website |-> NoWebsite]
        ELSE [err |-> FALSE, website |-> found[1]]

\* website.UseCase.GetAllWebsite: the websites of that user.
GetAllWebsiteOf(store, userID, down) ==
    IF down THEN [err |-> TRUE, websites |-> <<>>]
    ELSE [err |-> FALSE, websites |-> Owned(store, userID)]

\* website.UseCase.FindWebsite: how many websites of that user have that host.
FindWebsite(store, userID, hostName, down) ==
    IF down THEN [err |-> TRUE, count |-> 0]
    ELSE [err |-> FALSE,
          count |-> Len(SelectSeq(store,
                        LAMBDA w : w.UserID = userID /\ w.HostName = hostName))]

\* InsertWebsite without the uniqueness guard: a plain insert.
InsertWebsiteUnguarded(store, userID, website, down) ==
    IF down THEN [err |-> TRUE, res |-> "unavailable", store |-> store]
    ELSE [err |-> FALSE, res |-> "created", store |-> Append(store, website)]

\* website.UseCase.InsertWebsite: creates the record unless the store is
\* unavailable or already holds a website of that user with that host.
InsertWebsite(store, userID, website, down) ==
    IF down THEN [err |-> TRUE, res |-> "unavailable", store |-> store]
    ELSE IF \E i \in 1..Len(store) :
                store[i].UserID = userID /\ store[i].HostName = website.HostName
    THEN [err |-> TRUE, res |-> "duplicate", store |-> store]
    ELSE [err |-> FALSE, res |-> "created", store |-> Append(store, website)]

(***************************************************************************)
(* Pieces of the handlers.                                                 *)
(***************************************************************************)
\* validate.Struct(request) with the tags of RequestWebsite.
ValidateStruct(body) ==
    /\ Len(body.Name) >= MinNameLen
    /\ Len(body.Name) <= MaxNameLen
    /\ Len(body.URL) >= MinURLLen

\* ResolveSession that takes the access UUID of the token for the user.
ResolveSessionUUIDAsUser(token, store) ==
    LET tokenAuth == ExtractAccessTokenMetadata(token)
        auth == GetAuth(store, tokenAuth.AccessUUID)
    IN  IF tokenAuth.err
        THEN [err |-> TRUE, userID |-> "",
              resp |-> Response(StatusUnauthorized, "extract token metadata failed", <<>>),
              calls |-> <<Call("ExtractAccessTokenMetadata", "err")>>]
        ELSE IF auth.err
        THEN [err |-> TRUE, userID |-> "",
              resp |-> Response(StatusUnauthorized, "get token auth failed", <<>>),
              calls |-> <<Call("ExtractAccessTokenMetadata", "ok"), Call("GetAuth", "err")>>]
        ELSE [err |-> FALSE, userID |-> tokenAuth.AccessUUID,
              resp |-> NoResponse,
              calls |-> <<Call("ExtractAccessTokenMetadata", "ok"), Call("GetAuth", "ok")>>]

\* The session resolution every handler repeats: the token's metadata, then
\* the user of its session; either failure is answered 401.
ResolveSession(token, store) ==
    LET tokenAuth == ExtractAccessTokenMetadata(token)
        auth == GetAuth(store, tokenAuth.AccessUUID)
    IN  IF tokenAuth.err
        THEN [err |-> TRUE, userID |-> "",
              resp |-> Response(StatusUnauthorized, "extract token metadata failed", <<>>),
              calls |-> <<Call("ExtractAccessTokenMetadata", "err")>>]
        ELSE IF auth.err
        THEN [err |-> TRUE, userID |-> "",
              resp |-> Response(StatusUnauthorized, "get token auth failed", <<>>),
              calls |-> <<Call("ExtractAccessTokenMetadata", "ok"), Call("GetAuth", "err")>>]
        ELSE [err |-> FALSE, userID |-> auth.userID,
              resp |-> NoResponse,
              calls |-> <<Call("ExtractAccessTokenMetadata", "ok"), Call("GetAuth", "ok")>>]

\* FindOutcome with the existence test off by one: one existing website is
\* not taken as a conflict.
FindOutcomeOffByOne(found) ==
    IF found.err
    THEN [next |-> "done",
          resp |-> Response(StatusInternalServerError,
                            "error occured while check for the email", <<>>)]
    ELSE IF found.count > 1
    THEN [next |-> "done",
          resp |-> Response(StatusConflict, "this website already exists", <<>>)]
    ELSE [next |-> "build", resp |-> NoResponse]

\* What AddWebsite does with the result of FindWebsite.
FindOutcome(found) ==
    IF found.err
    THEN [next |-> "done",
          resp |-> Response(StatusInternalServerError,
                            "error occured while check for the email", <<>>)]
    ELSE IF found.count > 0
    THEN [next |-> "done",
          resp |-> Response(StatusConflict, "this website already exists", <<>>)]
    ELSE [next |-> "build", resp |-> NoResponse]

\* NewWebsite with the update time taken from a second, later clock reading.
NewWebsiteSecondClockRead(userID, body, hostName, createdAt) ==
    [ID |-> Hash(hostName),
     UserID |-> userID,
     Name |-> body.Name,
     HostName |-> hostName,
     URL |-> body.URL,
     Tracked |-> FALSE,
     CreatedAt |-> createdAt,
     UpdatedAt |-> createdAt + 1]

\* NewWebsite with the id hashed from the name instead of the host.
NewWebsiteHashOfName(userID, body, hostName, createdAt) ==
    [ID |-> Hash(body.Name),
     UserID |-> userID,
     Name |-> body.Name,
     HostName |-> hostName,
     URL |-> body.URL,
     Tracked |-> FALSE,
     CreatedAt |-> createdAt,
     UpdatedAt |-> createdAt]

\* The models.Website that AddWebsite builds.
NewWebsite(userID, body, hostName, createdAt) ==
    [ID |-> Hash(hostName),
     UserID |-> userID,
     Name |-> body.Name,
     HostName |-> hostName,
     URL |-> body.URL,
     Tracked |-> FALSE,
     CreatedAt |-> createdAt,
     UpdatedAt |-> createdAt]

\* InsertOutcome with the error test inverted.
InsertOutcomeInverted(insertErr, website) ==
    IF ~insertErr
    THEN Response(StatusInternalServerError, "error occured while insert website", <<>>)
    ELSE Response(StatusOK, "", <<website>>)

\* InsertOutcome that does not look at the error of InsertWebsite.
InsertOutcomeIgnoringError(insertErr, website) ==
    Response(StatusOK, "", <<website>>)

\* What AddWebsite answers after InsertWebsite.
InsertOutcome(insertErr, website) ==
    IF insertErr
    THEN Response(StatusInternalServerError, "error occured while insert website", <<>>)
    ELSE Response(StatusOK, "", <<website>>)

(***************************************************************************)
(* The state machine.                                                      *)
(***************************************************************************)
Init ==
    /\ websites = <<>>
    /\ sessions = [a \in {"a1", "a2"} |-> IF a = "a1" THEN "u1" ELSE "u2"]
    /\ clock = 0
    /\ pc = [r \in Requests |-> "idle"]
    /\ req = [r \in Requests |-> NoRequest]
    /\ loc = [r \in Requests |-> NoLocals]
    /\ resp = [r \in Requests |-> NoResponse]
    /\ calls = [r \in Requests |-> <<>>]

\* The wall clock advances.
Tick ==
    /\ clock < MaxClock
    /\ clock' = clock + 1
    /\ UNCHANGED <<websites, sessions, pc, req, loc, resp, calls>>

\* InitRoutes: request r arrives on the route of handler h.  Requests are
\* numbered in their order of arrival.
Arrives(r) ==
    /\ pc[r] = "idle"
    /\ \A q \in Requests : q < r => pc[q] # "idle"

Routed(r, h, t, b, id) ==
    req' = [req EXCEPT ![r] = [handler |-> h, token |-> t, body |-> b, website_id |-> id]]

Tracking(r) ==
    /\ Arrives(r)
    /\ \E t \in Tokens, id \in WebsiteIDs :
         LET s == ResolveSession(t, sessions)
         IN  /\ Routed(r, "Tracking", t, NoBody, id)
             /\ calls' = [calls EXCEPT ![r] = s.calls]
             /\ loc' = [loc EXCEPT ![r].userID = s.userID]
             /\ resp' = [resp EXCEPT ![r] =
                            IF s.err THEN s.resp
                            ELSE Response(StatusOK, "tracking.html", <<>>)]
    /\ pc' = [pc EXCEPT ![r] = "done"]
    /\ UNCHANGED <<websites, sessions, clock>>

\* GetWebsite that marks the website it found as tracked.
GetWebsiteMarkingTracked(r) ==
    /\ Arrives(r)
    /\ \E t \in Tokens, id \in WebsiteIDs, storeDown \in BOOLEAN :
         LET s == ResolveSession(t, sessions)
             got == GetWebsiteOf(websites, s.userID, id, storeDown)
         IN  /\ Routed(r, "GetWebsite", t, NoBody, id)
             /\ loc' = [loc EXCEPT ![r].userID = s.userID]
             /\ IF s.err
                THEN /\ calls' = [calls EXCEPT ![r] = s.calls]
                     /\ resp' = [resp EXCEPT ![r] = s.resp]
                     /\ websites' = websites
                ELSE IF got.err
                THEN /\ calls' = [calls EXCEPT ![r] =
                                     Append(s.calls, Call("GetWebsite", "err"))]
                     /\ resp' = [resp EXCEPT ![r] =
                                    Response(StatusInternalServerError,
                                             "error occured while get the website by id",
                                             <<>>)]
                     /\ websites' = websites
                ELSE /\ calls' = [calls EXCEPT ![r] =
                                     Append(s.calls, Call("GetWebsite", "ok"))]
                     /\ resp' = [resp EXCEPT ![r] =
                                    Response(StatusOK, "", <<got.website>>)]
                     /\ websites' = [i \in 1..Len(websites) |->
                                       IF websites[i] = got.website
                                       THEN [websites[i] EXCEPT !.Tracked = TRUE]
                                       ELSE websites[i]]
    /\ pc' = [pc EXCEPT ![r] = "done"]
    /\ UNCHANGED <<sessions, clock>>

GetWebsite(r) ==
    /\ Arrives(r)
    /\ \E t \in Tokens, id \in WebsiteIDs, storeDown \in BOOLEAN :
         LET s == ResolveSession(t, sessions)
             got == GetWebsiteOf(websites, s.userID, id, storeDown)
         IN  /\ Routed(r, "GetWebsite", t, NoBody, id)
             /\ loc' = [loc EXCEPT ![r].userID = s.userID]
             /\ IF s.err
                THEN /\ calls' = [calls EXCEPT ![r] = s.calls]
                     /\ resp' = [resp EXCEPT ![r] = s.resp]
                ELSE IF got.err
                THEN /\ calls' = [calls EXCEPT ![r] =
                                     Append(s.calls, Call("GetWebsite", "err"))]
                     /\ resp' = [resp EXCEPT ![r] =
                                    Response(StatusInternalServerError,
                                             "error occured while get the website by id",
                                             <<>>)]
                ELSE /\ calls' = [calls EXCEPT ![r] =
                                     Append(s.calls, Call("GetWebsite", "ok"))]
                     /\ resp' = [resp EXCEPT ![r] =
                                    Response(StatusOK, "", <<got.website>>)]
    /\ pc' = [pc EXCEPT ![r] = "done"]
    /\ UNCHANGED <<websites, sessions, clock>>

GetAllWebsite(r) ==
    /\ Arrives(r)
    /\ \E t \in Tokens, storeDown \in BOOLEAN :
         LET s == ResolveSession(t, sessions)
             got == GetAllWebsiteOf(websites, s.userID, storeDown)
         IN  /\ Routed(r, "GetAllWebsite", t, NoBody, 0)
             /\ loc' = [loc EXCEPT ![r].userID = s.userID]
             /\ IF s.err
                THEN /\ calls' = [calls EXCEPT ![r] = s.calls]
                     /\ resp' = [resp EXCEPT ![r] = s.resp]
                ELSE IF got.err
                THEN /\ calls' = [calls EXCEPT ![r] =
                                     Append(s.calls, Call("GetAllWebsite", "err"))]
                     /\ resp' = [resp EXCEPT ![r] =
                                    Response(StatusInternalServerError,
                                             "error occured while get all website", <<>>)]
                ELSE /\ calls' = [calls EXCEPT ![r] =
                                     Append(s.calls, Call("GetAllWebsite", "ok"))]
                     /\ resp' = [resp EXCEPT ![r] =
                                    Response(StatusOK, "", got.websites)]
    /\ pc' = [pc EXCEPT ![r] = "done"]
    /\ UNCHANGED <<websites, sessions, clock>>

\* AddWebsite whose existence check looks at the host alone, whoever the
\* user of the stored website is.
AddWebsiteHostOnlyCheck(r) ==
    /\ Arrives(r)
    /\ \E t \in Tokens, body \in Bodies, storeDown \in BOOLEAN :
         LET parsed == ParseURL(body.URL)
             s == ResolveSession(t, sessions)
             anyUser == [i \in 1..Len(websites) |->
                            [websites[i] EXCEPT !.UserID = s.userID]]
             found == FindWebsite(anyUser, s.userID, parsed.hostName, storeDown)
             out == FindOutcome(found)
             bound == <<Call("ShouldBindJSON", "ok")>>
             valid == Append(bound, Call("Struct", "ok"))
             host == Append(valid, Call("ParseURL", "ok"))
         IN  /\ Routed(r, "AddWebsite", t, body, 0)
             /\ IF ~body.json
                THEN /\ calls' = [calls EXCEPT ![r] = <<Call("ShouldBindJSON", "err")>>]
                     /\ resp' = [resp EXCEPT ![r] =
                                    Response(StatusBadRequest, "bind error", <<>>)]
                     /\ pc' = [pc EXCEPT ![r] = "done"]
                     /\ loc' = loc
                ELSE IF ~ValidateStruct(body)
                THEN /\ calls' = [calls EXCEPT ![r] = Append(bound, Call("Struct", "err"))]
                     /\ resp' = [resp EXCEPT ![r] =
                                    Response(StatusBadRequest, "validation error", <<>>)]
                     /\ pc' = [pc EXCEPT ![r] = "done"]
                     /\ loc' = loc
                ELSE IF parsed.err
                THEN /\ calls' = [calls EXCEPT ![r] = Append(valid, Call("ParseURL", "err"))]
                     /\ resp' = [resp EXCEPT ![r] =
                                    Response(StatusInternalServerError,
                                             "error occured while parse url the website",
                                             <<>>)]
                     /\ pc' = [pc EXCEPT ![r] = "done"]
                     /\ loc' = loc
                ELSE IF s.err
                THEN /\ calls' = [calls EXCEPT ![r] = host \o s.calls]
                     /\ resp' = [resp EXCEPT ![r] = s.resp]
                     /\ pc' = [pc EXCEPT ![r] = "done"]
                     /\ loc' = [loc EXCEPT ![r].hostName = parsed.hostName]
                ELSE /\ calls' = [calls EXCEPT ![r] =
                                     Append(host \o s.calls,
                                            Call("FindWebsite",
                                                 IF found.err THEN "unavailable"
                                                 ELSE IF found.count > 0 THEN "found"
                                                 ELSE "absent"))]
                     /\ resp' = [resp EXCEPT ![r] = out.resp]
                     /\ pc' = [pc EXCEPT ![r] = out.next]
                     /\ loc' = [loc EXCEPT ![r].hostName = parsed.hostName,
                                           ![r].userID = s.userID]
    /\ UNCHANGED <<websites, sessions, clock>>

\* AddWebsite up to the existence check: bind, validate, parse the URL,
\* resolve the session, FindWebsite.
AddWebsite(r) ==
    /\ Arrives(r)
    /\ \E t \in Tokens, body \in Bodies, storeDown \in BOOLEAN :
         LET parsed == ParseURL(body.URL)
             s == ResolveSession(t, sessions)
             found == FindWebsite(websites, s.userID, parsed.hostName, storeDown)
             out == FindOutcome(found)
             bound == <<Call("ShouldBindJSON", "ok")>>
             valid == Append(bound, Call("Struct", "ok"))
             host == Append(valid, Call("ParseURL", "ok"))
         IN  /\ Routed(r, "AddWebsite", t, body, 0)
             /\ IF ~body.json
                THEN /\ calls' = [calls EXCEPT ![r] = <<Call("ShouldBindJSON", "err")>>]
                     /\ resp' = [resp EXCEPT ![r] =
                                    Response(StatusBadRequest, "bind error", <<>>)]
                     /\ pc' = [pc EXCEPT ![r] = "done"]
                     /\ loc' = loc
                ELSE IF ~ValidateStruct(body)
                THEN /\ calls' = [calls EXCEPT ![r] = Append(bound, Call("Struct", "err"))]
                     /\ resp' = [resp EXCEPT ![r] =
                                    Response(StatusBadRequest, "validation error", <<>>)]
                     /\ pc' = [pc EXCEPT ![r] = "done"]
                     /\ loc' = loc
                ELSE IF parsed.err
                THEN /\ calls' = [calls EXCEPT ![r] = Append(valid, Call("ParseURL", "err"))]
                     /\ resp' = [resp EXCEPT ![r] =
                                    Response(StatusInternalServerError,
                                             "error occured while parse url the website",
                                             <<>>)]
                     /\ pc' = [pc EXCEPT ![r] = "done"]
                     /\ loc' = loc
                ELSE IF s.err
                THEN /\ calls' = [calls EXCEPT ![r] = host \o s.calls]
                     /\ resp' = [resp EXCEPT ![r] = s.resp]
                     /\ pc' = [pc EXCEPT ![r] = "done"]
                     /\ loc' = [loc EXCEPT ![r].hostName = parsed.hostName]
                ELSE /\ calls' = [calls EXCEPT ![r] =
                                     Append(host \o s.calls,
                                            Call("FindWebsite",
                                                 IF found.err THEN "unavailable"
                                                 ELSE IF found.count > 0 THEN "found"
                                                 ELSE "absent"))]
                     /\ resp' = [resp EXCEPT ![r] = out.resp]
                     /\ pc' = [pc EXCEPT ![r] = out.next]
                     /\ loc' = [loc EXCEPT ![r].hostName = parsed.hostName,
                                           ![r].userID = s.userID]
    /\ UNCHANGED <<websites, sessions, clock>>

\* AddWebsite, continued: the id, the creation time read off the clock once,
\* and the record.  A creation time that does not parse is logged and the
\* handler returns.
AddWebsiteBuild(r) ==
    /\ pc[r] = "build"
    /\ \E parseFails \in BOOLEAN :
         LET createdAt == ParseTime(FormatTime(clock), parseFails)
         IN  IF createdAt.err
             THEN /\ calls' = [calls EXCEPT ![r] = Append(@, Call("ParseTime", "err"))]
                  /\ pc' = [pc EXCEPT ![r] = "done"]
                  /\ loc' = loc
             ELSE /\ calls' = [calls EXCEPT ![r] = Append(@, Call("ParseTime", "ok"))]
                  /\ pc' = [pc EXCEPT ![r] = "insert"]
                  /\ loc' = [loc EXCEPT ![r].website =
                                NewWebsite(loc[r].userID, req[r].body,
                                           loc[r].hostName, createdAt.time)]
    /\ UNCHANGED <<websites, sessions, clock, req, resp>>

\* AddWebsiteInsert that tries again when the store is unavailable.
AddWebsiteInsertRetrying(r) ==
    /\ pc[r] = "insert"
    /\ \E storeDown \in BOOLEAN :
         LET ins == InsertWebsite(websites, loc[r].userID, loc[r].website, storeDown)
         IN  /\ websites' = ins.store
             /\ calls' = [calls EXCEPT ![r] = Append(@, Call("InsertWebsite", ins.res))]
             /\ IF ins.res = "unavailable"
                THEN UNCHANGED <<resp, pc>>
                ELSE /\ resp' = [resp EXCEPT ![r] = InsertOutcome(ins.err, loc[r].website)]
                     /\ pc' = [pc EXCEPT ![r] = "done"]
    /\ UNCHANGED <<sessions, clock, req, loc>>

\* AddWebsite, continued: InsertWebsite and the answer.
AddWebsiteInsert(r) ==
    /\ pc[r] = "insert"
    /\ \E storeDown \in BOOLEAN :
         LET ins == InsertWebsite(websites, loc[r].userID, loc[r].website, storeDown)
         IN  /\ websites' = ins.store
             /\ calls' = [calls EXCEPT ![r] = Append(@, Call("InsertWebsite", ins.res))]
             /\ resp' = [resp EXCEPT ![r] = InsertOutcome(ins.err, loc[r].website)]
    /\ pc' = [pc EXCEPT ![r] = "done"]
    /\ UNCHANGED <<sessions, clock, req, loc>>

\* UpdateWebsite has an empty body.
UpdateWebsite(r) ==
    /\ Arrives(r)
    /\ Routed(r, "UpdateWebsite", NoToken, NoBody, 0)
    /\ pc' = [pc EXCEPT ![r] = "done"]
    /\ UNCHANGED <<websites, sessions, clock, loc, resp, calls>>

\* DeleteWebsite that deletes: it empties the store.
DeleteWebsiteDeleting(r) ==
    /\ Arrives(r)
    /\ Routed(r, "DeleteWebsite", NoToken, NoBody, 0)
    /\ pc' = [pc EXCEPT ![r] = "done"]
    /\ websites' = <<>>
    /\ UNCHANGED <<sessions, clock, loc, resp, calls>>

\* DeleteWebsite has an empty body.
DeleteWebsite(r) ==
    /\ Arrives(r)
    /\ Routed(r, "DeleteWebsite", NoToken, NoBody, 0)
    /\ pc' = [pc EXCEPT ![r] = "done"]
    /\ UNCHANGED <<websites, sessions, clock, loc, resp, calls>>

Next ==
    \/ Tick
    \/ \E r \in Requests : Tracking(r)
    \/ \E r \in Requests : GetWebsite(r)
    \/ \E r \in Requests : GetAllWebsite(r)
    \/ \E r \in Requests : AddWebsite(r)
    \/ \E r \in Requests : AddWebsiteBuild(r)
    \/ \E r \in Requests : AddWebsiteInsert(r)
    \/ \E r \in Requests : UpdateWebsite(r)
    \/ \E r \in Requests : DeleteWebsite(r)

Spec == Init /\ [][Next]_vars

(***************************************************************************)
(* Vocabulary of the properties.                                           *)
(***************************************************************************)
Done(r) == pc[r] = "done"

IsAdd(r) == req[r].handler = "AddWebsite"

Last(s) == s[Len(s)]

EndedOn(r, op, res) == Done(r) /\ calls[r] # <<>> /\ Last(calls[r]) = Call(op, res)

Called(r, op) == \E i \in 1..Len(calls[r]) : calls[r][i].op = op

CalledWith(r, op, res) == \E i \in 1..Len(calls[r]) : calls[r][i] = Call(op, res)

\* The request met an unavailable store or a creation time that did not parse.
Disturbed(r) ==
    \E i \in 1..Len(calls[r]) :
        \/ calls[r][i].res = "unavailable"
        \/ calls[r][i] = Call("ParseTime", "err")

\* The token resolves to no principal: malformed, or no live session.
Unresolvable(token) == ~token.valid \/ token.AccessUUID \notin DOMAIN sessions

HasSite(store, userID, hostName) ==
    \E i \in 1..Len(store) : store[i].UserID = userID /\ store[i].HostName = hostName

\* The handler of request r takes its first step, up to its first answer or
\* to the end of the existence check.
Handles(r, h) == pc[r] = "idle" /\ pc'[r] # "idle" /\ req'[r].handler = h

(***************************************************************************)
(* C1.  Two concurrent AddWebsite requests of the same user for the same   *)
(* canonical host, neither meeting an unavailable store: one is answered   *)
(* 200 and the other 409, whatever the interleaving of their FindWebsite   *)
(* and InsertWebsite calls; never two 200 and never a 500.                 *)
(***************************************************************************)
C1_OneCreatedOtherConflict ==
    \A r1, r2 \in Requests :
        ( /\ r1 # r2
          /\ Done(r1) /\ Done(r2) /\ IsAdd(r1) /\ IsAdd(r2)
          /\ Called(r1, "FindWebsite") /\ Called(r2, "FindWebsite")
          /\ ~Disturbed(r1) /\ ~Disturbed(r2)
          /\ loc[r1].userID = loc[r2].userID
          /\ loc[r1].hostName = loc[r2].hostName )
        => {resp[r1].status, resp[r2].status} = {StatusOK, StatusConflict}

(***************************************************************************)
(* C2.  In every reachable state the store holds at most one website for   *)
(* each pair of user and host name.                                        *)
(***************************************************************************)
C2_AtMostOnePerOwnerHost ==
    \A i, j \in 1..Len(websites) :
        (websites[i].UserID = websites[j].UserID
         /\ websites[i].HostName = websites[j].HostName) => i = j

\* Two requests of one user for one host both called InsertWebsite.
C2_Witness ==
    \E r1, r2 \in Requests :
        /\ r1 # r2
        /\ CalledWith(r1, "InsertWebsite", "created")
        /\ CalledWith(r2, "InsertWebsite", "duplicate")
        /\ loc[r1].userID = loc[r2].userID
        /\ loc[r1].hostName = loc[r2].hostName

(***************************************************************************)
(* C3.  An AddWebsite request whose existence check finds a website of its *)
(* user with its canonical host (an earlier registration) is answered 409, *)
(* ends without calling InsertWebsite, and leaves the store, and so the    *)
(* earlier registration, as it was.                                        *)
(***************************************************************************)
C3_SecondRegisterConflicts ==
    [][\A r \in Requests :
          ( /\ Handles(r, "AddWebsite")
            /\ Called(r, "FindWebsite")'
            /\ ~CalledWith(r, "FindWebsite", "unavailable")'
            /\ HasSite(websites, loc'[r].userID, loc'[r].hostName) )
          => /\ resp'[r].status = StatusConflict
             /\ pc'[r] = "done"
             /\ ~Called(r, "InsertWebsite")'
             /\ websites' = websites]_vars

\* A request answered 409 whose name and URL differ from those of the
\* stored website of the same user and host.
C3_Witness ==
    \E r \in Requests, i \in 1..Len(websites) :
        /\ Done(r) /\ IsAdd(r)
        /\ resp[r].status = StatusConflict
        /\ websites[i].UserID = loc[r].userID
        /\ websites[i].HostName = loc[r].hostName
        /\ websites[i].URL # req[r].body.URL
        /\ websites[i].Name # req[r].body.Name

(***************************************************************************)
(* C4.  GetWebsite by a user for an id that only a website of another user *)
(* has is answered as not found: with a failure of its own kind, which is  *)
(* none of the answers the handlers give for success, bad input, a failed  *)
(* authentication, a conflict or an internal error.                        *)
(***************************************************************************)
OtherKinds ==
    {0, StatusOK, StatusBadRequest, StatusUnauthorized, StatusConflict,
     StatusInternalServerError}

OwnedByOthersOnly(store, userID, id) ==
    /\ \E i \in 1..Len(store) : store[i].ID = id /\ store[i].UserID # userID
    /\ ~\E i \in 1..Len(store) : store[i].ID = id /\ store[i].UserID = userID

C4_ForeignIdIsNotFound ==
    [][\A r \in Requests :
          ( /\ Handles(r, "GetWebsite")
            /\ Called(r, "GetWebsite")'
            /\ OwnedByOthersOnly(websites, loc'[r].userID, req'[r].website_id) )
          => resp'[r].status \notin OtherKinds]_vars

(***************************************************************************)
(* C5.  An AddWebsite request whose FindWebsite or InsertWebsite call      *)
(* meets an unavailable store ends at once with a 500, never with a 409    *)
(* or a 200, and leaves the stored websites unchanged.                     *)
(***************************************************************************)
C5_UnavailableStoreIsFailure ==
    [][\A r \in Requests :
          ( /\ calls'[r] # calls[r]
            /\ Last(calls'[r]).res = "unavailable" )
          => /\ resp'[r].status = StatusInternalServerError
             /\ pc'[r] = "done"
             /\ websites' = websites]_vars

\* One request ended on an unavailable FindWebsite, another on an
\* unavailable InsertWebsite.
C5_Witness ==
    \E r1, r2 \in Requests :
        /\ EndedOn(r1, "FindWebsite", "unavailable")
        /\ EndedOn(r2, "InsertWebsite", "unavailable")
        /\ resp[r1].status = StatusInternalServerError
        /\ resp[r2].status = StatusInternalServerError

(***************************************************************************)
(* C6.  In Tracking, GetWebsite, GetAllWebsite and AddWebsite the session  *)
(* is resolved before anything else: a request whose token resolves to no  *)
(* principal made no call before ExtractAccessTokenMetadata and is         *)
(* answered 401, whatever its other inputs.                                *)
(***************************************************************************)
C6_SessionResolvedFirst ==
    \A r \in Requests :
        ( /\ Done(r)
          /\ req[r].handler \in {"Tracking", "GetWebsite", "GetAllWebsite", "AddWebsite"}
          /\ Unresolvable(req[r].token) )
        => /\ resp[r].status = StatusUnauthorized
           /\ calls[r] # <<>>
           /\ calls[r][1].op = "ExtractAccessTokenMetadata"

(***************************************************************************)
(* C7.  Every website, stored or built and about to be inserted, has its   *)
(* creation time equal to its update time.                                 *)
(***************************************************************************)
C7_CreatedEqualsUpdated ==
    /\ \A i \in 1..Len(websites) : websites[i].CreatedAt = websites[i].UpdatedAt
    /\ \A r \in Requests : loc[r].website.CreatedAt = loc[r].website.UpdatedAt

\* A stored website created after the first second.
C7_Witness ==
    \E i \in 1..Len(websites) : websites[i].CreatedAt > 0

(***************************************************************************)
(* C8.  Every stored website has the hash of its host name as id, so two   *)
(* stored websites have the same id exactly when they have the same host   *)
(* name, whoever their users are.                                          *)
(***************************************************************************)
C8_IdIsHashOfHost ==
    /\ \A i \in 1..Len(websites) : websites[i].ID = Hash(websites[i].HostName)
    /\ \A i, j \in 1..Len(websites) :
          (websites[i].ID = websites[j].ID) <=>
          (websites[i].HostName = websites[j].HostName)

\* Two users registered the same host from different URLs.
C8_Witness ==
    \E i, j \in 1..Len(websites) :
        /\ websites[i].UserID # websites[j].UserID
        /\ websites[i].HostName = websites[j].HostName
        /\ websites[i].URL # websites[j].URL

(***************************************************************************)
(* C9.  AddWebsite with a well-formed payload whose URL has no host is     *)
(* answered as bad input, neither as success nor as an internal error,     *)
(* and calls neither FindWebsite nor InsertWebsite.                        *)
(***************************************************************************)
C9_InvalidURLIsBadInput ==
    \A r \in Requests :
        ( /\ Done(r) /\ IsAdd(r)
          /\ req[r].body.json
          /\ ValidateStruct(req[r].body)
          /\ ParseURL(req[r].body.URL).err )
        => /\ resp[r].status \notin {StatusOK, StatusInternalServerError}
           /\ ~Called(r, "FindWebsite")
           /\ ~Called(r, "InsertWebsite")

(***************************************************************************)
(* C10.  A stored website stays in the store, with every field as it was,  *)
(* in every later state; the store changes only when an AddWebsite request *)
(* inserts the website it built.                                           *)
(***************************************************************************)
C10_StoredWebsitesAreStable ==
    [][/\ Len(websites') >= Len(websites)
       /\ \A i \in 1..Len(websites) : websites'[i] = websites[i]
       /\ websites' # websites =>
            \E r \in Requests :
                /\ pc[r] = "insert"
                /\ pc'[r] = "done"
                /\ websites' = Append(websites, loc[r].website)]_vars

\* UpdateWebsite and DeleteWebsite requests arrived after a website was
\* stored and have returned; the website is still there.
C10_Witness ==
    /\ Len(websites) > 0
    /\ \E i \in 1..Len(websites), r \in Requests :
          /\ Done(r)
          /\ req[r].handler \in {"UpdateWebsite", "DeleteWebsite"}
          /\ \E q \in Requests : q < r /\ loc[q].website = websites[i]

(***************************************************************************)
(* C11.  The handlers that only resolve the session and read, Tracking,    *)
(* GetWebsite and GetAllWebsite, leave the session store and the website   *)
(* store unchanged, whether they succeed or fail.                          *)
(***************************************************************************)
C11_ReadsChangeNothing ==
    [][\A r \in Requests :
          ( \/ Handles(r, "Tracking")
            \/ Handles(r, "GetWebsite")
            \/ Handles(r, "GetAllWebsite") )
          => /\ websites' = websites
             /\ sessions' = sessions]_vars

\* A GetWebsite request was answered with the stored website of its user.
C11_Witness ==
    \E r \in Requests, i \in 1..Len(websites) :
        /\ Done(r) /\ req[r].handler = "GetWebsite"
        /\ resp[r].status = StatusOK
        /\ resp[r].data = <<websites[i]>>
        /\ websites[i].UserID = loc[r].userID

(***************************************************************************)
(* C12.  An AddWebsite request calls FindWebsite at most once and          *)
(* InsertWebsite at most once, and a call to the session store or to the   *)
(* website store that fails is the last call of the request: the request   *)
(* ends there with a 401 or a 500 and the call is not repeated.            *)
(***************************************************************************)
CallCount(r, op) == Cardinality({i \in 1..Len(calls[r]) : calls[r][i].op = op})

FailedCall(c) ==
    /\ c.op \in {"ExtractAccessTokenMetadata", "GetAuth", "FindWebsite", "InsertWebsite"}
    /\ c.res \in {"err", "unavailable", "duplicate"}

C12_OneAttemptNoRetry ==
    \A r \in Requests :
        IsAdd(r) =>
          /\ CallCount(r, "FindWebsite") <= 1
          /\ CallCount(r, "InsertWebsite") <= 1
          /\ \A i \in 1..Len(calls[r]) :
                FailedCall(calls[r][i]) =>
                  /\ i = Len(calls[r])
                  /\ Done(r)
                  /\ resp[r].status \in {StatusUnauthorized, StatusInternalServerError}

\* A request ended on its one InsertWebsite call, which met an unavailable
\* store, after its one FindWebsite call.
C12_Witness ==
    \E r \in Requests :
        /\ IsAdd(r)
        /\ EndedOn(r, "InsertWebsite", "unavailable")
        /\ CallCount(r, "FindWebsite") = 1
        /\ CallCount(r, "InsertWebsite") = 1
        /\ resp[r].status = StatusInternalServerError

(***************************************************************************)
(* C13.  An AddWebsite request that has returned has written a response:   *)
(* no path through the handler ends without one.                           *)
(***************************************************************************)
C13_EveryPathAnswers ==
    \A r \in Requests : (Done(r) /\ IsAdd(r)) => resp[r].status # 0

(***************************************************************************)
(* C14.  The user an AddWebsite request looks up and creates for is the    *)
(* user of the session of its own token, and every stored website was      *)
(* built by a request whose token resolves to the website's user.          *)
(***************************************************************************)
PrincipalOf(r) == sessions[req[r].token.AccessUUID]

C14_OwnerIsResolvedPrincipal ==
    /\ \A r \in Requests :
          (IsAdd(r) /\ Called(r, "FindWebsite")) =>
            /\ ~Unresolvable(req[r].token)
            /\ loc[r].userID = PrincipalOf(r)
            /\ Called(r, "InsertWebsite") => loc[r].website.UserID = PrincipalOf(r)
    /\ \A i \in 1..Len(websites) :
          \E r \in Requests :
              /\ IsAdd(r)
              /\ CalledWith(r, "InsertWebsite", "created")
              /\ loc[r].website = websites[i]
              /\ websites[i].UserID = PrincipalOf(r)

\* Both users have a stored website, each created by a request with that
\* user's token.
C14_Witness ==
    \E i, j \in 1..Len(websites) :
        /\ websites[i].UserID = "u1"
        /\ websites[j].UserID = "u2"

(***************************************************************************)
(* C15.  The existence check and the insert are scoped to the user.  When  *)
(* another user has a website for a host and the requesting user has none, *)
(* an available FindWebsite does not end the request with a conflict, a    *)
(* creation time that parses leads on to the insert of a record of the     *)
(* requesting user, and an available InsertWebsite creates that record,    *)
(* with the same id as the other user's, answers 200 and leaves the other  *)
(* user's record as it was.                                                *)
(***************************************************************************)
OthersOnlyHaveHost(store, userID, hostName) ==
    /\ ~HasSite(store, userID, hostName)
    /\ \E i \in 1..Len(store) : store[i].UserID # userID /\ store[i].HostName = hostName

C15_DedupIsPerOwner ==
    [][\A r \in Requests :
          /\ ( /\ Handles(r, "AddWebsite")
               /\ Called(r, "FindWebsite")'
               /\ ~CalledWith(r, "FindWebsite", "unavailable")'
               /\ OthersOnlyHaveHost(websites, loc'[r].userID, loc'[r].hostName) )
             => /\ pc'[r] = "build"
                /\ resp'[r].status # StatusConflict
          /\ ( /\ pc[r] = "build" /\ pc'[r] # "build"
               /\ Last(calls'[r]) = Call("ParseTime", "ok") )
             => /\ pc'[r] = "insert"
                /\ loc'[r].website.UserID = loc[r].userID
                /\ loc'[r].website.HostName = loc[r].hostName
          /\ ( /\ pc[r] = "insert" /\ pc'[r] = "done"
               /\ Last(calls'[r]).res # "unavailable"
               /\ OthersOnlyHaveHost(websites, loc[r].userID, loc[r].hostName) )
             => /\ resp'[r].status = StatusOK
                /\ websites' = Append(websites, loc[r].website)
                /\ \A i \in 1..Len(websites) :
                      /\ websites'[i] = websites[i]
                      /\ websites[i].HostName = loc[r].hostName
                           => websites[i].ID = loc[r].website.ID]_vars

\* Two users have a website of the same host with the same id, and the
\* request of the second was answered 200.
C15_Witness ==
    \E i, j \in 1..Len(websites), r \in Requests :
        /\ i < j
        /\ websites[i].UserID # websites[j].UserID
        /\ websites[i].HostName = websites[j].HostName
        /\ websites[i].ID = websites[j].ID
        /\ Done(r) /\ IsAdd(r)
        /\ loc[r].website = websites[j]
        /\ resp[r].status = StatusOK

(***************************************************************************)
(* C16.  An AddWebsite request is answered 200 exactly when its own        *)
(* InsertWebsite call created the record; the website in the answer is     *)
(* the record it stored, field for field, with Tracked false; a request    *)
(* whose insert created the record is never answered with a failure.       *)
(***************************************************************************)
C16_SuccessIffCreated ==
    \A r \in Requests :
        (Done(r) /\ IsAdd(r)) =>
          /\ (resp[r].status = StatusOK) <=> CalledWith(r, "InsertWebsite", "created")
          /\ resp[r].status = StatusOK =>
               /\ resp[r].data = <<loc[r].website>>
               /\ \E i \in 1..Len(websites) : websites[i] = resp[r].data[1]
               /\ resp[r].data[1].Tracked = FALSE
               /\ resp[r].data[1].UserID = loc[r].userID
               /\ resp[r].data[1].HostName = loc[r].hostName
               /\ resp[r].data[1].Name = req[r].body.Name
               /\ resp[r].data[1].URL = req[r].body.URL

\* One request was answered 200 with its stored record, another of the same
\* user and host was answered 500 after the store rejected its insert.
C16_Witness ==
    \E r1, r2 \in Requests :
        /\ Done(r1) /\ IsAdd(r1) /\ resp[r1].status = StatusOK
        /\ \E i \in 1..Len(websites) : websites[i] = resp[r1].data[1]
        /\ Done(r2) /\ IsAdd(r2) /\ EndedOn(r2, "InsertWebsite", "duplicate")
        /\ resp[r2].status = StatusInternalServerError

====
